---- MODULE Spec2Model ----
(***************************************************************************)
(* Model of src/Visualization/app1.py: a Streamlit script over a table of  *)
(* support tickets.  Streamlit runs the script top to bottom once at start *)
(* and again, whole, after every widget change; the state is the loaded    *)
(* table, the four widget values and what the last run computed.           *)
(*                                                                         *)
(* Numbers that pandas/numpy hold as float64 are exact rationals here,     *)
(* extended with NaN and +/-inf ([n, d] with d = 0), so that x/0 and 0/0   *)
(* behave as in numpy.  A timestamp is a number of minutes, NaT where      *)
(* pd.to_datetime(errors="coerce") could not parse the cell.               *)
(***************************************************************************)
EXTENDS Integers, Sequences, FiniteSets

VARIABLES df, channel_filter, issue_filter, date_range, threshold,
          df_f, kpi, tab2, anomalies, tab3

vars == <<df, channel_filter, issue_filter, date_range, threshold,
          df_f, kpi, tab2, anomalies, tab3>>

---------------------------------------------------------------------------
(* Bounds of the model.                                                    *)

\* Longest table built from every combination of sample rows.
MaxRows == 2

\* Rows by which the longest patterned table exceeds the display cap.
MaxExtra == 5

---------------------------------------------------------------------------
(* float64 values: finite rationals n/d in lowest terms with d > 0,        *)
(* NaN = 0/0, +inf = 1/0, -inf = -1/0.                                     *)

Abs(x) == IF x < 0 THEN -x ELSE x

Sgn(x) == IF x < 0 THEN -1 ELSE IF x = 0 THEN 0 ELSE 1

RECURSIVE Gcd(_, _)
Gcd(a, b) == IF b = 0 THEN a ELSE Gcd(b, a % b)

Norm(n, d) ==
    LET g == Gcd(Abs(n), d)
    IN  [n |-> Sgn(n) * (Abs(n) \div g), d |-> d \div g]

F(i) == [n |-> i, d |-> 1]

NaN == [n |-> 0, d |-> 0]

Inf(s) == [n |-> s, d |-> 0]

IsNaN(x) == x.d = 0 /\ x.n = 0

IsInf(x) == x.d = 0 /\ x.n # 0

FNeg(x) == [n |-> -x.n, d |-> x.d]

FAbs(x) == [n |-> Abs(x.n), d |-> x.d]

FAdd(x, y) ==
    IF IsNaN(x) \/ IsNaN(y) THEN NaN
    ELSE IF IsInf(x) /\ IsInf(y) THEN (IF x.n = y.n THEN x ELSE NaN)
    ELSE IF IsInf(x) THEN x
    ELSE IF IsInf(y) THEN y
    ELSE LET g == Gcd(x.d, y.d)
         IN  Norm(x.n * (y.d \div g) + y.n * (x.d \div g), (x.d \div g) * y.d)

FSub(x, y) == FAdd(x, FNeg(y))

FMul(x, y) ==
    IF IsNaN(x) \/ IsNaN(y) THEN NaN
    ELSE IF IsInf(x) \/ IsInf(y)
         THEN (IF x.n = 0 \/ y.n = 0 THEN NaN ELSE Inf(Sgn(x.n) * Sgn(y.n)))
    ELSE LET g1 == Gcd(Abs(x.n), y.d)
             g2 == Gcd(Abs(y.n), x.d)
         IN  IF x.n = 0 \/ y.n = 0 THEN F(0)
             ELSE Norm((x.n \div g1) * (y.n \div g2), (x.d \div g2) * (y.d \div g1))

FDiv(x, y) ==
    IF IsNaN(x) \/ IsNaN(y) THEN NaN
    ELSE IF IsInf(x) THEN (IF IsInf(y) THEN NaN
                           ELSE Inf(Sgn(x.n) * (IF y.n < 0 THEN -1 ELSE 1)))
    ELSE IF IsInf(y) THEN F(0)
    ELSE IF y.n = 0 THEN (IF x.n = 0 THEN NaN ELSE Inf(Sgn(x.n)))
    ELSE FMul(x, [n |-> Sgn(y.n) * y.d, d |-> Abs(y.n)])

\* x < y on float64: any comparison with NaN is False.
FLess(x, y) ==
    IF IsNaN(x) \/ IsNaN(y) THEN FALSE
    ELSE IF IsInf(x) THEN x.n < 0 /\ ~(IsInf(y) /\ y.n < 0)
    ELSE IF IsInf(y) THEN y.n > 0
    ELSE x.n * y.d < y.n * x.d

RECURSIVE Sum(_)
Sum(s) == IF s = <<>> THEN 0 ELSE Head(s) + Sum(Tail(s))

RECURSIVE FSum(_)
FSum(s) == IF s = <<>> THEN F(0) ELSE FAdd(Head(s), FSum(Tail(s)))

---------------------------------------------------------------------------
(* The table.                                                              *)

\* pd.to_datetime(..., errors="coerce") stores NaT for an unparsable cell.
NaT == -1

MinutesPerDay == 1440

\* Series.dt.date: the calendar date of a timestamp, NaT for NaT.
dt_date(ts) == IF ts = NaT THEN NaT ELSE ts \div MinutesPerDay

\* Sample rows of the CSV: both A/B channels and a third one, two issue
\* types, three days (one day at 00:00 and at 23:59), an unparsable
\* timestamp, and resolution times on both sides of the slider's values.
SampleRows == <<
    [Ticket_ID |-> 101, Created_At |-> 1 * MinutesPerDay,        Channel |-> "Chatbot",
     Issue_Type |-> "Billing", Response_Time_Minutes |-> 5,
     Resolution_Time_Minutes |-> 100, CSAT_Score |-> 5, CSAT_Binary |-> 1],
    [Ticket_ID |-> 102, Created_At |-> 1 * MinutesPerDay + 1439, Channel |-> "Live Agent",
     Issue_Type |-> "Billing", Response_Time_Minutes |-> 7,
     Resolution_Time_Minutes |-> 200, CSAT_Score |-> 1, CSAT_Binary |-> 0],
    [Ticket_ID |-> 103, Created_At |-> 2 * MinutesPerDay,        Channel |-> "Live Agent",
     Issue_Type |-> "Safety", Response_Time_Minutes |-> 9,
     Resolution_Time_Minutes |-> 181, CSAT_Score |-> 4, CSAT_Binary |-> 1],
    [Ticket_ID |-> 104, Created_At |-> 3 * MinutesPerDay + 720,  Channel |-> "Chatbot",
     Issue_Type |-> "Safety", Response_Time_Minutes |-> 2,
     Resolution_Time_Minutes |-> 180, CSAT_Score |-> 3, CSAT_Binary |-> 0],
    [Ticket_ID |-> 105, Created_At |-> 2 * MinutesPerDay + 600,  Channel |-> "Email",
     Issue_Type |-> "Billing", Response_Time_Minutes |-> 30,
     Resolution_Time_Minutes |-> 300, CSAT_Score |-> 2, CSAT_Binary |-> 0],
    [Ticket_ID |-> 106, Created_At |-> NaT,                      Channel |-> "Live Agent",
     Issue_Type |-> "Safety", Response_Time_Minutes |-> 4,
     Resolution_Time_Minutes |-> 310, CSAT_Score |-> 5, CSAT_Binary |-> 1] >>

NSample == Len(SampleRows)

\* A DataFrame is a sequence of rows; idx is the row's index label, which
\* boolean indexing and .copy() keep.
Row(k, i) ==
    [idx |-> i, Ticket_ID |-> SampleRows[k].Ticket_ID,
     Created_At |-> SampleRows[k].Created_At, Channel |-> SampleRows[k].Channel,
     Issue_Type |-> SampleRows[k].Issue_Type,
     Response_Time_Minutes |-> SampleRows[k].Response_Time_Minutes,
     Resolution_Time_Minutes |-> SampleRows[k].Resolution_Time_Minutes,
     CSAT_Score |-> SampleRows[k].CSAT_Score, CSAT_Binary |-> SampleRows[k].CSAT_Binary]

Frame(ks) == [i \in 1..Len(ks) |-> Row(ks[i], i - 1)]

RECURSIVE SeqsUpTo(_, _)
SeqsUpTo(S, n) ==
    IF n = 0 THEN {<<>>}
    ELSE LET shorter == SeqsUpTo(S, n - 1)
         IN  shorter \cup {Append(s, x) : s \in shorter, x \in S}

\* A longer table: the sample rows in order, again from the first, and
\* after NSample + 2 rows the Email row only.
Pattern(n) ==
    [i \in 1..n |-> IF i <= NSample + 2 THEN ((i - 1) % NSample) + 1 ELSE 5]

HasDate(frame) == \E i \in 1..Len(frame) : frame[i].Created_At # NaT

---------------------------------------------------------------------------
(* Program constants.                                                      *)

\* anomalies[...].head(20)
DisplayCap == 20

\* st.slider(..., min_value=60, max_value=300, value=180, step=10)
SliderMin == 60

SliderMax == 300

SliderDefault == 180

SliderStep == 10

\* if p_val < 0.05
Alpha == [n |-> 1, d |-> 20]

ABChannels == {"Chatbot", "Live Agent"}

---------------------------------------------------------------------------
(* Tables the program may have loaded: every table of up to MaxRows sample *)
(* rows, and longer ones that follow Pattern: two with A/B groups of two   *)
(* and three rows, and those from the display cap to MaxExtra rows past    *)
(* it.  min_date/max_date (lines 36-37) need one parsable timestamp, so a  *)
(* table without any is left out.                                          *)

LongLengths == {NSample + 1, NSample + 2} \cup (DisplayCap..(DisplayCap + MaxExtra))

Datasets ==
    {f \in {Frame(ks) : ks \in SeqsUpTo(1..NSample, MaxRows)}
           \cup {Frame(Pattern(n)) : n \in LongLengths} :
        HasDate(f)}

---------------------------------------------------------------------------
(* Sidebar widgets (lines 21-43).                                          *)

\* sorted(df["Channel"].dropna().unique())
channel_options(frame) == {frame[i].Channel : i \in 1..Len(frame)}

\* sorted(df["Issue_Type"].dropna().unique())
issue_options(frame) == {frame[i].Issue_Type : i \in 1..Len(frame)}

Dates(frame) ==
    {dt_date(frame[i].Created_At) : i \in {j \in 1..Len(frame) : frame[j].Created_At # NaT}}

\* df["Created_At"].min().date(): min() skips NaT.
min_date(frame) ==
    IF Dates(frame) = {} THEN NaT
    ELSE CHOOSE d \in Dates(frame) : \A e \in Dates(frame) : d <= e

\* df["Created_At"].max().date()
max_date(frame) ==
    IF Dates(frame) = {} THEN NaT
    ELSE CHOOSE d \in Dates(frame) : \A e \in Dates(frame) : d >= e

\* Values the slider is moved to in the model: its ends and its default.
ThresholdChoices ==
    {t \in {SliderMin, SliderDefault, SliderMax} :
        t >= SliderMin /\ t <= SliderMax /\ (t - SliderMin) % SliderStep = 0}

---------------------------------------------------------------------------
(* Apply filters (lines 45-52).                                            *)

\* Series.isin(values)
isin(v, values) == v \in values

\* An elementwise comparison of a date column against a date: False where
\* the cell is NaT.
date_ge(d, x) == d # NaT /\ d >= x

date_le(d, x) == d # NaT /\ d <= x

\* Variant: the end of the date range is compared with <, not <=.
mask_open_end(r, ch, is, dr) ==
    /\ isin(r.Channel, ch)
    /\ isin(r.Issue_Type, is)
    /\ date_ge(dt_date(r.Created_At), dr[1])
    /\ dt_date(r.Created_At) # NaT /\ dt_date(r.Created_At) < dr[2]

mask(r, ch, is, dr) ==
    /\ isin(r.Channel, ch)
    /\ isin(r.Issue_Type, is)
    /\ date_ge(dt_date(r.Created_At), dr[1])
    /\ date_le(dt_date(r.Created_At), dr[2])

\* Variant: the first selected row is lost (frame[mask].iloc[1:]).
Filter_drop_first(frame, ch, is, dr) ==
    LET sel == SelectSeq(frame, LAMBDA r : mask(r, ch, is, dr))
    IN  IF sel = <<>> THEN sel ELSE Tail(sel)

\* frame[mask]: the rows whose mask is True, in the frame's order.
Filter(frame, ch, is, dr) == SelectSeq(frame, LAMBDA r : mask(r, ch, is, dr))

\* Variant: the table is filtered in place (df = df[mask]; df_f = df).
apply_filters_in_place(frame, ch, is, dr) ==
    [df |-> Filter(frame, ch, is, dr), df_f |-> Filter(frame, ch, is, dr)]

\* df_f = df[mask].copy(): df_f is bound to a new table, df stays bound to
\* the loaded one.
apply_filters(frame, ch, is, dr) ==
    [df |-> frame, df_f |-> Filter(frame, ch, is, dr)]

---------------------------------------------------------------------------
(* KPIs (lines 59-72).                                                     *)

column(frame, name) == [i \in 1..Len(frame) |-> frame[i][name]]

\* Variant: an empty series averages to 0.
mean_zero_if_empty(s) == IF Len(s) = 0 THEN F(0) ELSE FDiv(F(Sum(s)), F(Len(s)))

\* Series.mean(): sum / count in float64, NaN for an empty series.
mean(s) == FDiv(F(Sum(s)), F(Len(s)))

\* df_f.groupby(df_f["Created_At"].dt.date).size().mean(): groupby drops
\* the NaT key; the sizes of the groups add up to the rows with a date.
tickets_per_day(frame) ==
    FDiv(F(Cardinality({i \in 1..Len(frame) : frame[i].Created_At # NaT})),
         F(Cardinality(Dates(frame))))

happy_rate(frame) == FMul(mean(column(frame, "CSAT_Binary")), F(100))

compute_metrics(frame) ==
    [avg_csat        |-> mean(column(frame, "CSAT_Score")),
     avg_resolution  |-> mean(column(frame, "Resolution_Time_Minutes")),
     tickets_per_day |-> tickets_per_day(frame),
     happy_rate      |-> happy_rate(frame)]

---------------------------------------------------------------------------
(* Tab 2: A/B test, Chatbot vs Live Agent (lines 108-137).                 *)

\* ab_df = df_f[df_f["Channel"].isin(["Chatbot", "Live Agent"])].copy()
ab_df(frame) == SelectSeq(frame, LAMBDA r : isin(r.Channel, ABChannels))

\* Variant: if len(ab_df) <= 2
not_enough_le(ab) == Len(ab) <= 2

\* if len(ab_df) < 2
not_enough(ab) == Len(ab) < 2

\* ab_df[ab_df["Channel"] == label]["CSAT_Score"]
group(ab, label) == column(SelectSeq(ab, LAMBDA r : r.Channel = label), "CSAT_Score")

\* Sample variance with ddof = 1; 0/0 = NaN for a single value.
var(s) ==
    LET m == mean(s)
        sq == [i \in 1..Len(s) |-> FMul(FSub(F(s[i]), m), FSub(F(s[i]), m))]
    IN  FDiv(FSum(sq), F(Len(s) - 1))

\* Variant: the second sample's variance is divided by the first's size.
ttest_ind_n1_twice(a, b) ==
    IF Len(a) = 0 \/ Len(b) = 0 THEN [statistic |-> NaN, df |-> NaN]
    ELSE LET vn1 == FDiv(var(a), F(Len(a)))
             vn2 == FDiv(var(b), F(Len(a)))
             se2 == FAdd(vn1, vn2)
             df0 == FDiv(FMul(se2, se2),
                         FAdd(FDiv(FMul(vn1, vn1), F(Len(a) - 1)),
                              FDiv(FMul(vn2, vn2), F(Len(b) - 1))))
             d   == FSub(mean(a), mean(b))
         IN  [statistic |-> FDiv(FMul(d, FAbs(d)), se2),
              df        |-> IF IsNaN(df0) THEN F(1) ELSE df0]

\* stats.ttest_ind(a, b, equal_var=False), Welch's test:
\*   vn_i = var_i / n_i,  df = (vn1 + vn2)^2 / (vn1^2/(n1-1) + vn2^2/(n2-1)),
\*   a NaN df is replaced by 1,  t = (mean(a) - mean(b)) / sqrt(vn1 + vn2);
\* an empty sample gives NaN.  t is irrational in general: `statistic' holds
\* sign(t) * t^2, which is rational and determines t.
ttest_ind(a, b) ==
    IF Len(a) = 0 \/ Len(b) = 0 THEN [statistic |-> NaN, df |-> NaN]
    ELSE LET vn1 == FDiv(var(a), F(Len(a)))
             vn2 == FDiv(var(b), F(Len(b)))
             se2 == FAdd(vn1, vn2)
             df0 == FDiv(FMul(se2, se2),
                         FAdd(FDiv(FMul(vn1, vn1), F(Len(a) - 1)),
                              FDiv(FMul(vn2, vn2), F(Len(b) - 1))))
             d   == FSub(mean(a), mean(b))
         IN  [statistic |-> FDiv(FMul(d, FAbs(d)), se2),
              df        |-> IF IsNaN(df0) THEN F(1) ELSE df0]

\* The two-sided p-value 2 * stdtr(dof, -|t|) is a value of the t
\* distribution's CDF, which is not rational arithmetic.  What is exact:
\* NaN for a NaN statistic, 0 for an infinite one, 1 for t = 0, and
\* otherwise a value strictly between 0 and 1; there the model lets it be
\* 0.0499, 0.05 or 0.0501.
p_values(dof, t) ==
    IF IsNaN(t) \/ IsNaN(dof) THEN {NaN}
    ELSE IF IsInf(t) THEN {F(0)}
    ELSE IF t.n = 0 THEN {F(1)}
    ELSE {Norm(499, 10000), Norm(500, 10000), Norm(501, 10000)}

\* Variant: if p_val <= 0.05
verdict_le(p) == IF FLess(p, Alpha) \/ p = Alpha THEN "success" ELSE "info"

\* if p_val < 0.05: st.success(...) else: st.info(...)
verdict(p) == IF FLess(p, Alpha) THEN "success" ELSE "info"

\* Variant: the sizes and the means are written before the length check.
tab2_elements_sizes_first(short, p) ==
    IF short THEN {"sizes", "means", "warning"}
    ELSE {"sizes", "means", "p_value", verdict(p), "boxplot"}

\* The elements tab 2 writes: the warning alone when ab_df is too short,
\* else the sizes, the means, the p-value, one verdict and the boxplot.
tab2_elements(short, p) ==
    IF short THEN {"warning"}
    ELSE {"sizes", "means", "p_value", verdict(p), "boxplot"}

\* What tab 2 shows for a filtered table: one result per p-value the test
\* may return.  The numbers of elements that are not written are 0 / NaN.
compare_groups(frame) ==
    LET ab      == ab_df(frame)
        chatbot == group(ab, "Chatbot")
        agent   == group(ab, "Live Agent")
        res     == ttest_ind(chatbot, agent)
    IN  IF not_enough(ab)
        THEN {[written |-> tab2_elements(TRUE, NaN),
               n_chatbot |-> 0, n_agent |-> 0,
               mean_chatbot |-> NaN, mean_agent |-> NaN,
               t_stat |-> NaN, t_df |-> NaN, p_val |-> NaN]}
        ELSE {[written |-> tab2_elements(FALSE, p),
               n_chatbot |-> Len(chatbot), n_agent |-> Len(agent),
               mean_chatbot |-> mean(chatbot), mean_agent |-> mean(agent),
               t_stat |-> res.statistic, t_df |-> res.df, p_val |-> p] :
              p \in p_values(res.df, res.statistic)}

---------------------------------------------------------------------------
(* Tab 3: anomalies (lines 139-154).                                       *)

\* Variant: >= threshold
scan_threshold_ge(frame, T) == SelectSeq(frame, LAMBDA r : r.Resolution_Time_Minutes >= T)

\* Variant: the slider's value is ignored, the default is used.
scan_threshold_default(frame, T) ==
    SelectSeq(frame, LAMBDA r : r.Resolution_Time_Minutes > SliderDefault)

\* df_f[df_f["Resolution_Time_Minutes"] > threshold]
scan_threshold(frame, T) == SelectSeq(frame, LAMBDA r : r.Resolution_Time_Minutes > T)

\* anomalies[["Ticket_ID", "Created_At", "Channel", "Issue_Type",
\*            "Response_Time_Minutes", "Resolution_Time_Minutes", "CSAT_Score"]]
project(r) ==
    [idx |-> r.idx, Ticket_ID |-> r.Ticket_ID, Created_At |-> r.Created_At,
     Channel |-> r.Channel, Issue_Type |-> r.Issue_Type,
     Response_Time_Minutes |-> r.Response_Time_Minutes,
     Resolution_Time_Minutes |-> r.Resolution_Time_Minutes,
     CSAT_Score |-> r.CSAT_Score]

\* DataFrame.head(n)
head(s, n) == SubSeq(s, 1, IF Len(s) < n THEN Len(s) ELSE n)

\* The count line, then the table of the first rows or the info message.
tab3_view(anoms) ==
    [count |-> Len(anoms),
     table |-> IF anoms # <<>>
               THEN head([i \in 1..Len(anoms) |-> project(anoms[i])], DisplayCap)
               ELSE <<>>,
     info  |-> anoms = <<>>]

---------------------------------------------------------------------------
(* One run of the script with the widgets at (ch, is, dr, T), on the table *)
(* `loaded' that load_data returns.                                        *)

Run(loaded, ch, is, dr, T) ==
    /\ channel_filter' = ch
    /\ issue_filter' = is
    /\ date_range' = dr
    /\ threshold' = T
    /\ df' = apply_filters(loaded, ch, is, dr).df
    /\ df_f' = apply_filters(loaded, ch, is, dr).df_f
    /\ kpi' = compute_metrics(df_f')
    /\ tab2' \in compare_groups(df_f')
    /\ anomalies' = scan_threshold(df_f', T)
    /\ tab3' = tab3_view(anomalies')

\* The first run: every widget at its default.
Init ==
    \E loaded \in Datasets :
        /\ channel_filter = channel_options(loaded)
        /\ issue_filter = issue_options(loaded)
        /\ date_range = <<min_date(loaded), max_date(loaded)>>
        /\ threshold = SliderDefault
        /\ df = apply_filters(loaded, channel_filter, issue_filter, date_range).df
        /\ df_f = apply_filters(loaded, channel_filter, issue_filter, date_range).df_f
        /\ kpi = compute_metrics(df_f)
        /\ tab2 \in compare_groups(df_f)
        /\ anomalies = scan_threshold(df_f, threshold)
        /\ tab3 = tab3_view(anomalies)

\* The operator changes the Channel multiselect.
SetChannelFilter ==
    \E ch \in SUBSET channel_options(df) :
        /\ ch # channel_filter
        /\ Run(df, ch, issue_filter, date_range, threshold)

\* The operator changes the Issue Type multiselect.
SetIssueFilter ==
    \E is \in SUBSET issue_options(df) :
        /\ is # issue_filter
        /\ Run(df, channel_filter, is, date_range, threshold)

\* The operator picks another date range within [min_date, max_date].
SetDateRange ==
    \E a \in min_date(df)..max_date(df), b \in min_date(df)..max_date(df) :
        /\ a <= b
        /\ <<a, b>> # date_range
        /\ Run(df, channel_filter, issue_filter, <<a, b>>, threshold)

\* The operator moves the threshold slider.
SetThreshold ==
    \E T \in ThresholdChoices :
        /\ T # threshold
        /\ Run(df, channel_filter, issue_filter, date_range, T)

Next == SetChannelFilter \/ SetIssueFilter \/ SetDateRange \/ SetThreshold

Spec == Init /\ [][Next]_vars

---------------------------------------------------------------------------
(* Properties.  They describe the run's results from the rows themselves,  *)
(* not through the operators above.                                        *)

\* Row r of the table is a row of sequence s (idx makes rows distinct).
In(r, s) == \E j \in 1..Len(s) : s[j] = r

\* The timestamp ts falls on one of the days a..b.
OnDays(ts, a, b) == ts # NaT /\ a * MinutesPerDay <= ts /\ ts < (b + 1) * MinutesPerDay

\* Row r passes the sidebar's current settings.
Selected(r) ==
    /\ r.Channel \in channel_filter
    /\ r.Issue_Type \in issue_filter
    /\ OnDays(r.Created_At, date_range[1], date_range[2])

\* Positions of the A/B rows of the filtered table, and of one channel.
ABRows == {j \in 1..Len(df_f) : df_f[j].Channel \in {"Chatbot", "Live Agent"}}

RowsOf(label) == {j \in 1..Len(df_f) : df_f[j].Channel = label}

\* Positions of the filtered rows above the current threshold.
Above == {j \in 1..Len(df_f) : df_f[j].Resolution_Time_Minutes > threshold}

TestRun == "p_value" \in tab2.written

\* C1: a row of the table is in the filtered table iff its channel and its
\* issue type are allowed and its timestamp falls on a day of the range;
\* the filtered table holds rows of the table only; a row without a
\* timestamp is never in it; a one-day range keeps rows of that day only.
C1_FilterExact ==
    /\ \A i \in 1..Len(df) : In(df[i], df_f) <=> Selected(df[i])
    /\ \A j \in 1..Len(df_f) : In(df_f[j], df)
    /\ \A i \in 1..Len(df) : df[i].Created_At = NaT => ~In(df[i], df_f)
    /\ date_range[1] = date_range[2] =>
           \A j \in 1..Len(df_f) :
               /\ df_f[j].Created_At >= date_range[1] * MinutesPerDay
               /\ df_f[j].Created_At < (date_range[1] + 1) * MinutesPerDay

\* A one-day range that keeps a row of the day's last minute and drops a
\* row of another day, a row without timestamp and a row of a channel that
\* is not allowed.
C1_Witness ==
    /\ date_range[1] = date_range[2]
    /\ \E j \in 1..Len(df_f) :
           df_f[j].Created_At = (date_range[1] + 1) * MinutesPerDay - 1
    /\ \E i \in 1..Len(df) : df[i].Created_At = NaT
    /\ \E i \in 1..Len(df) :
           df[i].Created_At # NaT /\ ~OnDays(df[i].Created_At, date_range[1], date_range[2])
    /\ \E i \in 1..Len(df) :
           /\ OnDays(df[i].Created_At, date_range[1], date_range[2])
           /\ df[i].Channel \notin channel_filter

\* C2: tab 2 shows the warning and no test iff fewer than 2 filtered rows
\* are Chatbot or Live Agent rows; with 2 or more the test is run.
C2_GuardBelowTwo ==
    /\ "warning" \in tab2.written <=> Cardinality(ABRows) < 2
    /\ TestRun <=> Cardinality(ABRows) >= 2
    /\ "warning" \in tab2.written => tab2.written = {"warning"}

\* Exactly two A/B rows, and the test was run.
C2_Witness == Cardinality(ABRows) = 2 /\ TestRun

\* C3: the anomalies are exactly the filtered rows with resolution time
\* strictly above the threshold, in the filtered table's order; the count
\* is their number; the table shows the first min(20, count) of them.
C3_ScanExact ==
    /\ \A j \in 1..Len(df_f) : In(df_f[j], anomalies) <=> j \in Above
    /\ \A k \in 1..Len(anomalies) : In(anomalies[k], df_f)
    /\ \A k \in 1..Len(anomalies) : \A m \in 1..Len(anomalies) :
           k < m => anomalies[k].idx < anomalies[m].idx
    /\ tab3.count = Cardinality(Above)
    /\ Len(tab3.table) = (IF tab3.count < 20 THEN tab3.count ELSE 20)
    /\ \A k \in 1..Len(tab3.table) :
           /\ tab3.table[k].idx = anomalies[k].idx
           /\ tab3.table[k].Ticket_ID = anomalies[k].Ticket_ID
           /\ tab3.table[k].Resolution_Time_Minutes = anomalies[k].Resolution_Time_Minutes

\* More than 20 anomalies, 20 of them shown, and a filtered row at the
\* threshold that is not one.
C3_Witness ==
    /\ tab3.count > 20
    /\ Len(tab3.table) = 20
    /\ \E j \in 1..Len(df_f) :
           df_f[j].Resolution_Time_Minutes = threshold /\ ~In(df_f[j], anomalies)

\* C4 as stated: tab 2 reports the group sizes and means for every
\* filtered table, also when fewer than 2 rows are A/B rows.
C4_SizesAlwaysReported == {"sizes", "means"} \subseteq tab2.written

\* C4 amended: the sizes and the means are reported iff at least 2 filtered
\* rows are A/B rows, and then they are the groups' sizes and means; with
\* fewer than 2, the warning is all that tab 2 shows.
C4_SizesReportedIffEnough ==
    /\ "sizes" \in tab2.written <=> Cardinality(ABRows) >= 2
    /\ "means" \in tab2.written <=> Cardinality(ABRows) >= 2
    /\ Cardinality(ABRows) < 2 => tab2.written = {"warning"}
    /\ "sizes" \in tab2.written =>
           /\ tab2.n_chatbot = Cardinality(RowsOf("Chatbot"))
           /\ tab2.n_agent = Cardinality(RowsOf("Live Agent"))
    /\ "means" \in tab2.written =>
           /\ tab2.n_chatbot > 0 =>
                  tab2.mean_chatbot.n * tab2.n_chatbot
                      = tab2.mean_chatbot.d
                          * Sum([j \in 1..Len(df_f) |->
                                   IF j \in RowsOf("Chatbot") THEN df_f[j].CSAT_Score ELSE 0])
           /\ tab2.n_chatbot = 0 => tab2.mean_chatbot = [n |-> 0, d |-> 0]

\* One A/B row among several filtered rows: the warning only.
C4_Witness ==
    /\ Cardinality(ABRows) = 1
    /\ Len(df_f) > 1
    /\ tab2.written = {"warning"}

C6_FilterIdempotent == Filter(df_f, channel_filter, issue_filter, date_range) = df_f

\* A filtered table of several rows that dropped rows of the table.
C6_Witness == Len(df_f) >= 2 /\ Len(df_f) < Len(df)

\* C7: when the test is run, exactly one verdict is written: "success" iff
\* the p-value is a number below 1/20, "info" otherwise (at 1/20, above,
\* and for NaN).
C7_VerdictByAlpha ==
    TestRun =>
        /\ "success" \in tab2.written <=> (tab2.p_val.d > 0 /\ 20 * tab2.p_val.n < tab2.p_val.d)
        /\ "info" \in tab2.written <=> ~(tab2.p_val.d > 0 /\ 20 * tab2.p_val.n < tab2.p_val.d)

\* The test was run and returned exactly 0.05: not significant.
C7_Witness ==
    /\ TestRun
    /\ tab2.p_val = [n |-> 1, d |-> 20]
    /\ "info" \in tab2.written

\* C8: in every state the results are those of the current widget values:
\* the filtered table is the table's rows that pass the current settings,
\* the metrics and tab 2 are computed from it, the anomalies are its rows
\* above the current threshold and tab 3 shows them.
C8_DerivedAreCurrent ==
    /\ df_f = SelectSeq(df, Selected)
    /\ kpi = compute_metrics(df_f)
    /\ tab2 \in compare_groups(df_f)
    /\ anomalies = SelectSeq(df_f, LAMBDA r : r.Resolution_Time_Minutes > threshold)
    /\ tab3.count = Len(anomalies)
    /\ tab3.info <=> anomalies = <<>>

\* Every widget away from its default, with rows left and an anomaly.
C8_Witness ==
    /\ channel_filter # channel_options(df)
    /\ issue_filter # issue_options(df)
    /\ date_range # <<min_date(df), max_date(df)>>
    /\ threshold # SliderDefault
    /\ df_f # <<>>
    /\ anomalies # <<>>

C10_DatasetUnchanged == [][df' = df]_vars

\* A run has filtered rows out, found anomalies and run the test; the
\* table is still one of the loaded ones.
C10_Witness ==
    /\ df \in Datasets
    /\ df_f # <<>> /\ Len(df_f) < Len(df)
    /\ channel_filter # channel_options(df)
    /\ anomalies # <<>>
    /\ TestRun

====
